---- MODULE Spec2Model ----
(***************************************************************************)
(* A model of organize.cpp: the extension classifier (FOLDER_MAP,          *)
(* build_extension_map, get_target_folder), the folder provisioner         *)
(* (ensure_folders), the scan-and-move loop (organize_files) and the part  *)
(* of main that runs them, over an abstract directory tree.                *)
(*                                                                         *)
(* A file name is a string; Spelling gives its characters, so that         *)
(* path::extension() and the lower-casing of get_target_folder are         *)
(* computed character by character as the code computes them.              *)
(***************************************************************************)
EXTENDS Integers, Sequences, FiniteSets, TLC

VARIABLES
  root,      \* the direct entries of base_path: entry name -> kind
  sub,       \* the files inside the category folders: folder -> name -> content
  pc,        \* where the program is: "main", "ensure", "scan", "done", "failed"
  run,       \* which invocation of the program this is (1, 2, ...)
  pending,   \* ensure_folders: the folders of FOLDER_MAP still to visit
  todo,      \* organize_files: the directory entries still to visit
  seen,      \* organize_files: the entries whose loop body has been entered
  renamed,   \* organize_files: the names fs::rename has moved in this run
  out,       \* the console of this run: the notices and errors printed
  exitCode,  \* main's return value (-1 while it runs)
  ext,       \* the local ext of organize_files / the argument of get_target_folder
  folder,    \* the local folder of organize_files / the result of get_target_folder
  env,       \* what the program does not control: invocation, orders, locked files
  start,     \* the tree when the first run began
  before     \* the tree when the current run began

vars == <<root, sub, pc, run, pending, todo, seen, renamed, out, exitCode,
          ext, folder, env, start, before>>

(***************************************************************************)
(* Bounds of the model.                                                    *)
(***************************************************************************)
\* How many times in a row the program is run on the same directory.
MaxRuns == 2
\* In how many respects the initial directory and invocation differ from the
\* plain case (four regular files, no folder yet, run by absolute path).
MaxOdd == 1

(***************************************************************************)
(* Characters and case.  get_target_folder lower-cases with std::tolower   *)
(* on unsigned char (C locale): only A-Z change.                           *)
(***************************************************************************)
UpperLetters == <<"A","B","C","D","E","F","G","H","I","J","K","L","M",
                  "N","O","P","Q","R","S","T","U","V","W","X","Y","Z">>
LowerLetters == <<"a","b","c","d","e","f","g","h","i","j","k","l","m",
                  "n","o","p","q","r","s","t","u","v","w","x","y","z">>

tolower(c) ==
  IF \E i \in 1..Len(UpperLetters) : UpperLetters[i] = c
  THEN LowerLetters[CHOOSE i \in 1..Len(UpperLetters) : UpperLetters[i] = c]
  ELSE c

toupper(c) ==
  IF \E i \in 1..Len(LowerLetters) : LowerLetters[i] = c
  THEN UpperLetters[CHOOSE i \in 1..Len(LowerLetters) : LowerLetters[i] = c]
  ELSE c

Range(s) == {s[i] : i \in DOMAIN s}

(***************************************************************************)
(* The category table, in the order the source lists it.                   *)
(***************************************************************************)
FOLDER_MAP ==
  [Programs |->
     <<
       <<".","e","x","e">>, <<".","m","s","i">>, <<".","b","a","t">>, <<".","s","h">>,
       <<".","a","p","k">>, <<".","a","p","p">>, <<".","j","a","r">>, <<".","c","m","d">>,
       <<".","g","a","d","g","e","t">>, <<".","w","s","f">>, <<".","d","e","b">>,
       <<".","r","p","m">>, <<".","b","i","n">>, <<".","c","o","m">>, <<".","v","b","s">>,
       <<".","p","s","1">>
     >>,
   Documents |->
     <<
       <<".","p","d","f">>, <<".","d","o","c">>, <<".","d","o","c","x">>, <<".","t","x","t">>,
       <<".","p","p","t">>, <<".","p","p","t","x">>, <<".","x","l","s">>,
       <<".","x","l","s","x">>, <<".","o","d","t">>, <<".","c","s","v">>, <<".","r","t","f">>,
       <<".","t","e","x">>, <<".","e","p","u","b">>, <<".","m","d">>, <<".","l","o","g">>,
       <<".","j","s","o","n">>, <<".","x","m","l">>, <<".","y","a","m","l">>,
       <<".","y","m","l">>, <<".","i","n","i">>
     >>,
   Compressed |->
     <<
       <<".","z","i","p">>, <<".","r","a","r">>, <<".","7","z">>, <<".","t","a","r">>,
       <<".","g","z">>, <<".","b","z","2">>, <<".","x","z">>, <<".","i","s","o">>,
       <<".","c","a","b">>, <<".","a","r","j">>, <<".","l","z","h">>, <<".","a","c","e">>,
       <<".","u","u","e">>, <<".","t","a","r",".","g","z">>,
       <<".","t","a","r",".","b","z","2">>, <<".","t","a","r",".","x","z">>
     >>,
   Music |->
     <<
       <<".","m","p","3">>, <<".","w","a","v">>, <<".","a","a","c">>, <<".","f","l","a","c">>,
       <<".","o","g","g">>, <<".","m","4","a">>, <<".","w","m","a">>, <<".","a","l","a","c">>,
       <<".","a","m","r">>, <<".","a","i","f","f">>, <<".","o","p","u","s">>,
       <<".","m","i","d">>, <<".","m","i","d","i">>
     >>,
   Video |->
     <<
       <<".","m","p","4">>, <<".","m","k","v">>, <<".","a","v","i">>, <<".","m","o","v">>,
       <<".","w","m","v">>, <<".","f","l","v">>, <<".","w","e","b","m">>,
       <<".","m","p","e","g">>, <<".","m","p","g">>, <<".","m","4","v">>, <<".","3","g","p">>,
       <<".","3","g","2">>, <<".","v","o","b">>, <<".","o","g","v">>, <<".","r","m">>,
       <<".","r","m","v","b">>, <<".","t","s">>, <<".","m","2","t","s">>
     >>,
   Images |->
     <<
       <<".","j","p","g">>, <<".","j","p","e","g">>, <<".","p","n","g">>, <<".","g","i","f">>,
       <<".","b","m","p">>, <<".","t","i","f","f">>, <<".","t","i","f">>,
       <<".","w","e","b","p">>, <<".","s","v","g">>, <<".","i","c","o">>,
       <<".","h","e","i","c">>, <<".","r","a","w">>, <<".","p","s","d">>, <<".","a","i">>,
       <<".","i","n","d","d">>, <<".","e","p","s">>, <<".","j","f","i","f">>,
       <<".","a","p","n","g">>, <<".","a","v","i","f">>, <<".","c","r","2">>,
       <<".","n","e","f">>, <<".","o","r","f">>, <<".","s","r","2">>
     >>,
   Others |->
     <<

     >> ]

\* The order in which the source lists the folders of FOLDER_MAP.
DeclaredOrder ==
  <<"Programs", "Documents", "Compressed", "Music", "Video", "Images", "Others">>

Folders == DOMAIN FOLDER_MAP

Reverse(s) == [i \in 1..Len(s) |-> s[Len(s) + 1 - i]]

\* FOLDER_MAP is an unordered_map: a range-for visits it in the order of the
\* build's hash table.  The model draws it from these.
FolderOrders == {DeclaredOrder, Reverse(DeclaredOrder)}

(***************************************************************************)
(* build_extension_map: g_extension_to_folder_map[ext] = folder is         *)
(* executed for every folder, in the order the loop visits them, and every *)
(* extension of it; a later assignment replaces an earlier one, so what    *)
(* is left under ext is the last folder visited that lists it.             *)
(***************************************************************************)
build_extension_map(order) ==
  LET Listing(e) == {i \in DOMAIN order : e \in Range(FOLDER_MAP[order[i]])}
      Keys == UNION {Range(FOLDER_MAP[order[i]]) : i \in DOMAIN order}
  IN  [e \in Keys |->
         order[CHOOSE i \in Listing(e) : \A j \in Listing(e) : j <= i]]

g_extension_to_folder_map == build_extension_map(DeclaredOrder)

(***************************************************************************)
(* get_target_folder: lower-case the extension, look it up, default to     *)
(* "Others".                                                               *)
(***************************************************************************)
LowerCase(s) == [i \in 1..Len(s) |-> tolower(s[i])]

get_target_folder_case_sensitive(file_ext) ==
  IF file_ext \in DOMAIN g_extension_to_folder_map
  THEN g_extension_to_folder_map[file_ext]
  ELSE "Others"

get_target_folder(file_ext) ==
  LET lower_ext == LowerCase(file_ext) IN
  IF lower_ext \in DOMAIN g_extension_to_folder_map
  THEN g_extension_to_folder_map[lower_ext]
  ELSE "Others"

(***************************************************************************)
(* Names.  path::extension(): empty for "." and "..", for a name without   *)
(* a dot and for a name whose only dot is its first character; otherwise   *)
(* the text from the last dot on.                                          *)
(***************************************************************************)
Names == {"a.Txt", "b.zz", "README", "o.exe"}

Entries == Names \cup Folders

Spelling ==
     "a.Txt" :> <<"a",".","T","x","t">> @@
     "b.zz" :> <<"b",".","z","z">> @@
     "README" :> <<"R","E","A","D","M","E">> @@
     "o.exe" :> <<"o",".","e","x","e">> @@
     "Programs" :> <<"P","r","o","g","r","a","m","s">> @@
     "Documents" :> <<"D","o","c","u","m","e","n","t","s">> @@
     "Compressed" :> <<"C","o","m","p","r","e","s","s","e","d">> @@
     "Music" :> <<"M","u","s","i","c">> @@
     "Video" :> <<"V","i","d","e","o">> @@
     "Images" :> <<"I","m","a","g","e","s">> @@
     "Others" :> <<"O","t","h","e","r","s">>

LastDot(s) ==
  IF \E i \in 1..Len(s) : s[i] = "."
  THEN CHOOSE i \in 1..Len(s) : s[i] = "." /\ \A j \in (i+1)..Len(s) : s[j] # "."
  ELSE 0

extension_whole_name(s) == s

extension(s) ==
  IF s = <<".">> \/ s = <<".", ".">> THEN <<>>
  ELSE IF LastDot(s) <= 1 THEN <<>>
  ELSE SubSeq(s, LastDot(s), Len(s))


(***************************************************************************)
(* The directory tree.  An entry of base_path is a regular file, a         *)
(* directory, a symbolic link to nothing ("dangling"), or a symbolic link  *)
(* whose target cannot be examined ("badlink": a link to itself, a link    *)
(* into a directory without search permission).  The files inside a        *)
(* category folders are triples <<folder, name, content>>, the content     *)
(* "kept" (there before the first run) or "moved" (arrived from            *)
(* base_path).                                                             *)
(***************************************************************************)
Kinds == {"absent", "file", "dir", "dangling", "badlink"}

\* fs::status(p), which follows symbolic links; "error" is a thrown
\* filesystem_error (exists(p) and directory_entry::is_regular_file() throw it).
status(kind) ==
  CASE kind = "file" -> "regular"
    [] kind = "dir" -> "directory"
    [] kind = "badlink" -> "error"
    [] OTHER -> "not_found"

\* What folder c holds under name e.
At(s, c, e) ==
  IF <<c, e, "kept">> \in s THEN "kept"
  ELSE IF <<c, e, "moved">> \in s THEN "moved"
  ELSE "none"

\* fs::exists(base_path / c / n): false when c is not a directory.
target_never_exists(r, s, c, n) == FALSE

target_exists(r, s, c, n) == r[c] = "dir" /\ At(s, c, n) # "none"

\* Whether fs::rename(base_path / n, base_path / c / n) throws: the target's
\* parent is not a directory, or the file system refuses to move the file.
rename_throws(r, c, n) == r[c] # "dir" \/ n \in env.locked

\* The tree after a successful fs::rename(base_path / n, base_path / c / n):
\* the name leaves base_path and takes the place of whatever the target held.
rename_losing_file(r, s, c, n) ==
  [root |-> [r EXCEPT ![n] = "absent"], sub |-> s]

rename_leaving_source(r, s, c, n) ==
  [root |-> r, sub |-> (s \ {<<c, n, "kept">>}) \cup {<<c, n, "moved">>}]

rename(r, s, c, n) ==
  [root |-> [r EXCEPT ![n] = "absent"],
   sub  |-> (s \ {<<c, n, "kept">>}) \cup {<<c, n, "moved">>}]

(***************************************************************************)
(* The invocation.  argv[0] is an absolute path, a path relative to the    *)
(* working directory, or a bare name the shell found through PATH; dir is  *)
(* the directory that holds the executable.  weakly_canonical makes a      *)
(* relative path absolute against the working directory.                   *)
(***************************************************************************)
ExeName == "o.exe"

Dirs == {"root", "elsewhere"}

Forms == {"absolute", "relative", "bare"}

weakly_canonical(argv0, cwd) ==
  IF argv0.form = "bare" THEN <<cwd, argv0.name>> ELSE <<argv0.dir, argv0.name>>

self_path == weakly_canonical(env.argv0, env.cwd)

\* weakly_canonical(entry.path()) of an entry of base_path.
entry_path(e) == <<"root", e>>

(***************************************************************************)
(* fs::directory_iterator(base_path): the entries present, in the order    *)
(* the file system keeps them.  The program does not choose that order;    *)
(* it is drawn from DirOrders and belongs to the directory: an entry that  *)
(* leaves does not reorder the entries that stay, in this run or the next. *)
(***************************************************************************)
BaseOrder ==
  <<"Documents", "a.Txt", "b.zz", "Music", "Others", "README", "o.exe",
    "Programs", "Compressed", "Video", "Images">>

DirOrders == {BaseOrder, Reverse(BaseOrder)}

Present(r, e) == r[e] # "absent"

directory_iterator(r) == SelectSeq(env.dirOrder, LAMBDA e : Present(r, e))

(***************************************************************************)
(* Initial states: the plain directory, changed in at most MaxOdd          *)
(* respects.                                                               *)
(***************************************************************************)
Plain ==
  [root   |-> [e \in Entries |-> IF e \in Names THEN "file" ELSE "absent"],
   sub    |-> {},
   locked |-> {},
   argv0  |-> [form |-> "absolute", dir |-> "elsewhere", name |-> ExeName],
   cwd    |-> "elsewhere"]

Variants(cfg) ==
       {[cfg EXCEPT !.root[n] = k] : n \in Names, k \in {"absent", "dir", "badlink"}}
  \cup {[cfg EXCEPT !.root[c] = k] :
          c \in Folders, k \in {"dir", "file", "dangling", "badlink"}}
  \cup {[cfg EXCEPT !.locked = @ \cup {n}] : n \in Names}
  \cup {[cfg EXCEPT !.root[c] = "dir", !.sub = @ \cup {<<c, n, "kept">>}] :
          c \in Folders, n \in Names}
  \cup {[cfg EXCEPT !.argv0 = [form |-> f, dir |-> d, name |-> ExeName],
                    !.cwd = w,
                    !.root[ExeName] = IF d = "root" THEN "file" ELSE @] :
          f \in Forms, d \in Dirs, w \in Dirs}

RECURSIVE Configs(_)
Configs(k) ==
  IF k = 0 THEN {Plain}
  ELSE LET prev == Configs(k - 1) IN prev \cup UNION {Variants(cfg) : cfg \in prev}

\* A tree that can exist: files sit in directories, only files are locked,
\* and the executable is a regular file where argv0 says it is.
Valid(cfg) ==
  /\ \A t \in cfg.sub : cfg.root[t[1]] = "dir"
  /\ \A n \in cfg.locked : cfg.root[n] = "file"
  /\ cfg.argv0.dir = "root" => cfg.root[ExeName] = "file"

Tree == [root |-> root, sub |-> sub]

Init ==
  \E cfg \in {c \in Configs(MaxOdd) : Valid(c)},
     fo \in FolderOrders, dord \in DirOrders :
    /\ root = cfg.root
    /\ sub = cfg.sub
    /\ pc = "main"
    /\ run = 1
    /\ pending = <<>>
    /\ todo = <<>>
    /\ seen = {}
    /\ renamed = {}
    /\ out = {}
    /\ exitCode = -1
    /\ ext = <<>>
    /\ folder = ""
    /\ env = [argv0 |-> cfg.argv0, cwd |-> cfg.cwd, locked |-> cfg.locked,
              folderOrder |-> fo, dirOrder |-> dord]
    /\ start = [root |-> cfg.root, sub |-> cfg.sub]
    /\ before = [root |-> cfg.root, sub |-> cfg.sub]

(***************************************************************************)
(* main, lines 197-208: the try block.                                     *)
(***************************************************************************)
\* Lines 198-202: resolve self_path, announce, call organize_files, which
\* calls ensure_folders.
Main ==
  /\ pc = "main"
  /\ pc' = "ensure"
  /\ pending' = env.folderOrder
  /\ out' = out \cup {<<"organizing">>}
  /\ UNCHANGED <<root, sub, run, todo, seen, renamed, exitCode, ext, folder,
                 env, start, before>>

\* Lines 205-207: an exception reaches main's catch.
Caught(what) ==
  /\ pc' = "failed"
  /\ out' = out \cup {<<"unexpected", what>>}
  /\ exitCode' = 1

(***************************************************************************)
(* ensure_folders, lines 63-75: one iteration of its loop per step.        *)
(***************************************************************************)
\* Line 67: the path exists; nothing is created.
EnsureExists ==
  /\ pc = "ensure" /\ pending # <<>>
  /\ status(root[Head(pending)]) \in {"regular", "directory"}
  /\ pending' = Tail(pending)
  /\ UNCHANGED <<root, sub, pc, run, todo, seen, renamed, out, exitCode, ext,
                 folder, env, start, before>>

\* Lines 67-68: the path does not exist and create_directory makes it.
EnsureCreate ==
  /\ pc = "ensure" /\ pending # <<>>
  /\ root[Head(pending)] = "absent"
  /\ root' = [root EXCEPT ![Head(pending)] = "dir"]
  /\ pending' = Tail(pending)
  /\ UNCHANGED <<sub, pc, run, todo, seen, renamed, out, exitCode, ext,
                 folder, env, start, before>>

\* Lines 68, 70-72: exists() says no for a dangling link, create_directory
\* throws (the name is taken), and the runtime_error leaves organize_files.
EnsureCreateThrowsIgnored ==
  /\ pc = "ensure" /\ pending # <<>>
  /\ root[Head(pending)] = "dangling"
  /\ pending' = Tail(pending)
  /\ UNCHANGED <<root, sub, pc, run, todo, seen, renamed, out, exitCode, ext,
                 folder, env, start, before>>

EnsureCreateThrows ==
  /\ pc = "ensure" /\ pending # <<>>
  /\ root[Head(pending)] = "dangling"
  /\ Caught(Head(pending))
  /\ UNCHANGED <<root, sub, run, pending, todo, seen, renamed, ext, folder,
                 env, start, before>>

\* Lines 67, 70-72: exists() itself throws.
EnsureExistsThrows ==
  /\ pc = "ensure" /\ pending # <<>>
  /\ status(root[Head(pending)]) = "error"
  /\ Caught(Head(pending))
  /\ UNCHANGED <<root, sub, run, pending, todo, seen, renamed, ext, folder,
                 env, start, before>>

(***************************************************************************)
(* organize_files, lines 101-132: one iteration of its loop per step.      *)
(***************************************************************************)
\* Line 103: ensure_folders has returned; the iterator is constructed.
BeginScan ==
  /\ pc = "ensure" /\ pending = <<>>
  /\ pc' = "scan"
  /\ todo' = directory_iterator(root)
  /\ UNCHANGED <<root, sub, run, pending, seen, renamed, out, exitCode, ext,
                 folder, env, start, before>>

\* The loop moves on to the next entry.
Advance ==
  /\ todo' = Tail(todo)
  /\ seen' = seen \cup {Head(todo)}

\* After a move the iterator loses the entry that follows.
AdvanceSkippingNext ==
  /\ todo' = IF Len(todo) >= 2 THEN Tail(Tail(todo)) ELSE <<>>
  /\ seen' = seen \cup {Head(todo)}

AdvanceAfterMove == Advance

\* Line 106: is_regular_file() throws; nothing in the loop catches it.
ScanThrows ==
  /\ pc = "scan" /\ todo # <<>>
  /\ status(root[Head(todo)]) = "error"
  /\ seen' = seen \cup {Head(todo)}
  /\ Caught(Head(todo))
  /\ UNCHANGED <<root, sub, run, pending, todo, renamed, ext, folder, env,
                 start, before>>

\* Line 106: not a regular file.
ScanNotFile ==
  /\ pc = "scan" /\ todo # <<>>
  /\ status(root[Head(todo)]) \in {"directory", "not_found"}
  /\ Advance
  /\ UNCHANGED <<root, sub, pc, run, pending, renamed, out, exitCode, ext,
                 folder, env, start, before>>

\* Line 106: the entry's resolved path is self_path.
ScanSelf ==
  /\ pc = "scan" /\ todo # <<>>
  /\ status(root[Head(todo)]) = "regular"
  /\ entry_path(Head(todo)) = self_path
  /\ Advance
  /\ UNCHANGED <<root, sub, pc, run, pending, renamed, out, exitCode, ext,
                 folder, env, start, before>>

\* Lines 107-113: ext and the test that skips a file without one.
Candidate(e) ==
  /\ status(root[e]) = "regular"
  /\ entry_path(e) # self_path

ScanNoExtension ==
  /\ pc = "scan" /\ todo # <<>>
  /\ Candidate(Head(todo))
  /\ extension(Spelling[Head(todo)]) = <<>>
  /\ ext' = <<>>
  /\ Advance
  /\ UNCHANGED <<root, sub, pc, run, pending, renamed, out, exitCode, folder,
                 env, start, before>>

\* Lines 115-117: folder and the target.
Classified(e) ==
  /\ Candidate(e)
  /\ extension(Spelling[e]) # <<>>
  /\ ext' = extension(Spelling[e])
  /\ folder' = get_target_folder(extension(Spelling[e]))

\* Lines 121, 124: the target exists; the skip notice.
ScanCollision ==
  /\ pc = "scan" /\ todo # <<>>
  /\ Classified(Head(todo))
  /\ target_exists(root, sub, folder', Head(todo))
  /\ out' = out \cup {<<"skipping", Head(todo), folder'>>}
  /\ Advance
  /\ UNCHANGED <<root, sub, pc, run, pending, renamed, exitCode, env, start,
                 before>>

\* Lines 121-122: the target does not exist and rename succeeds.
ScanMove ==
  /\ pc = "scan" /\ todo # <<>>
  /\ Classified(Head(todo))
  /\ ~target_exists(root, sub, folder', Head(todo))
  /\ ~rename_throws(root, folder', Head(todo))
  /\ root' = rename(root, sub, folder', Head(todo)).root
  /\ sub' = rename(root, sub, folder', Head(todo)).sub
  /\ renamed' = renamed \cup {Head(todo)}
  /\ AdvanceAfterMove
  /\ UNCHANGED <<pc, run, pending, out, exitCode, env, start, before>>

\* Lines 122, 126-128: rename throws; the error is printed and the loop goes on.
ScanMoveError ==
  /\ pc = "scan" /\ todo # <<>>
  /\ Classified(Head(todo))
  /\ ~target_exists(root, sub, folder', Head(todo))
  /\ rename_throws(root, folder', Head(todo))
  /\ out' = out \cup {<<"error", Head(todo)>>}
  /\ Advance
  /\ UNCHANGED <<root, sub, pc, run, pending, renamed, exitCode, env, start,
                 before>>

\* Lines 203, 210: organize_files has returned.
Complete ==
  /\ pc = "scan" /\ todo = <<>>
  /\ pc' = "done"
  /\ out' = out \cup {<<"complete">>}
  /\ exitCode' = 0
  /\ UNCHANGED <<root, sub, run, pending, todo, seen, renamed, ext, folder,
                 env, start, before>>

\* The program is run again on the directory as it was left.
Rerun ==
  /\ pc \in {"done", "failed"}
  /\ run < MaxRuns
  /\ run' = run + 1
  /\ pc' = "main"
  /\ pending' = <<>>
  /\ todo' = <<>>
  /\ seen' = {}
  /\ renamed' = {}
  /\ out' = {}
  /\ exitCode' = -1
  /\ ext' = <<>>
  /\ folder' = ""
  /\ before' = Tree
  /\ UNCHANGED <<root, sub, env, start>>

Next ==
  \/ Main
  \/ EnsureExists
  \/ EnsureCreate
  \/ EnsureCreateThrows
  \/ EnsureExistsThrows
  \/ BeginScan
  \/ ScanThrows
  \/ ScanNotFile
  \/ ScanSelf
  \/ ScanNoExtension
  \/ ScanCollision
  \/ ScanMove
  \/ ScanMoveError
  \/ Complete
  \/ Rerun

Spec == Init /\ [][Next]_vars

TypeOK ==
  /\ root \in [Entries -> Kinds]
  /\ sub \subseteq Folders \X Entries \X {"kept", "moved"}
  /\ pc \in {"main", "ensure", "scan", "done", "failed"}
  /\ run \in 1..MaxRuns
  /\ seen \subseteq Entries
  /\ renamed \subseteq Entries
  /\ exitCode \in {-1, 0, 1}


(***************************************************************************)
(* The classifier on its own: get_target_folder applied to one extension   *)
(* drawn from the table in three spellings and from strings outside it.    *)
(***************************************************************************)
TableExtensions == UNION {Range(FOLDER_MAP[c]) : c \in Folders}

UpperCase(s) == [i \in 1..Len(s) |-> toupper(s[i])]

MixedCase(s) == [i \in 1..Len(s) |-> IF i % 2 = 0 THEN toupper(s[i]) ELSE s[i]]

OtherExtensions ==
  {<<>>, <<".">>, <<".","z","z">>, <<".","Z","Z">>, <<"t","x","t">>,
   <<".","t","x">>, <<".","t","x","t","x">>, <<".","t","x","t",".">>,
   <<".","o","u","t">>, <<".","T","A","R",".","g","z">>}

ExtInputs ==
  TableExtensions \cup {UpperCase(e) : e \in TableExtensions}
                  \cup {MixedCase(e) : e \in TableExtensions}
                  \cup OtherExtensions

InitClassify ==
  /\ root = Plain.root
  /\ sub = Plain.sub
  /\ pc = "classify"
  /\ run = 1
  /\ pending = <<>>
  /\ todo = <<>>
  /\ seen = {}
  /\ renamed = {}
  /\ out = {}
  /\ exitCode = -1
  /\ ext \in ExtInputs
  /\ folder = ""
  /\ env = [argv0 |-> Plain.argv0, cwd |-> Plain.cwd, locked |-> Plain.locked,
            folderOrder |-> DeclaredOrder, dirOrder |-> BaseOrder]
  /\ start = [root |-> Plain.root, sub |-> Plain.sub]
  /\ before = [root |-> Plain.root, sub |-> Plain.sub]

Classify ==
  /\ pc = "classify"
  /\ folder' = get_target_folder(ext)
  /\ pc' = "classified"
  /\ UNCHANGED <<root, sub, run, pending, todo, seen, renamed, out, exitCode,
                 ext, env, start, before>>

SpecClassify == InitClassify /\ [][Classify]_vars

(***************************************************************************)
(* What the claims speak of, read from the table and the names alone.      *)
(***************************************************************************)
\* Extension e is listed under folder c.
InTable(e, c) == \E i \in DOMAIN FOLDER_MAP[c] : FOLDER_MAP[c][i] = e

\* The category of an extension: the folder that lists its lower-case form.
Category(e) ==
  IF \E c \in Folders : InTable(LowerCase(e), c)
  THEN CHOOSE c \in Folders : InTable(LowerCase(e), c)
  ELSE "Others"

\* The names with a suffix: a dot that is not the first character.
Suffixed == {e \in Entries : LastDot(Spelling[e]) > 1}

HasSuffix(e) == e \in Suffixed

Suffix(e) ==
  IF LastDot(Spelling[e]) > 1
  THEN SubSeq(Spelling[e], LastDot(Spelling[e]), Len(Spelling[e]))
  ELSE <<>>

\* The category folder of each name.
Targets == [e \in Entries |-> Category(Suffix(e))]

TargetOf(e) == Targets[e]

\* In tree t, n is a regular file with a suffix that is not the program itself.
Movable(t, n) ==
  /\ t.root[n] = "file"
  /\ HasSuffix(n)
  /\ entry_path(n) # self_path

\* organize_files has returned.
Returned == pc = "done"

\* ensure_folders threw.
ProvisioningFailed == pc = "failed" /\ pending # <<>>

\* The console names e in a skip notice or an error.
Mentioned(e) ==
  \/ <<"error", e>> \in out
  \/ <<"unexpected", e>> \in out
  \/ \E c \in Folders : <<"skipping", e, c>> \in out

(***************************************************************************)
(* C1. Move postcondition, as the specification states it: after a run,    *)
(* every movable file whose target did not exist before the run is at its  *)
(* target and no longer in base_path.  Taken at the end of a run that      *)
(* returned and in which every category folder is a directory.             *)
(***************************************************************************)
C1_MovedWheneverTargetFree ==
  (Returned /\ \A c \in Folders : root[c] = "dir") =>
    \A n \in Names :
      (Movable(before, n) /\ At(before.sub, TargetOf(n), n) = "none") =>
        (At(sub, TargetOf(n), n) # "none" /\ root[n] = "absent")

(***************************************************************************)
(* C1, amended. After a run that returned, a movable file whose target     *)
(* did not exist before the run is at its target and no longer in          *)
(* base_path unless a move error was printed for it; if one was, the file  *)
(* is still in base_path and its target still does not exist.              *)
(***************************************************************************)
C1_MovedUnlessErrorReported ==
  Returned =>
    \A n \in Names :
      (Movable(before, n) /\ At(before.sub, TargetOf(n), n) = "none") =>
        IF <<"error", n>> \in out
        THEN root[n] = "file" /\ At(sub, TargetOf(n), n) = "none"
        ELSE root[n] = "absent" /\ At(sub, TargetOf(n), n) = "moved"

C1_Witness ==
  /\ Returned
  /\ \E n \in Names :
       /\ Movable(before, n) /\ At(before.sub, TargetOf(n), n) = "none"
       /\ root[n] = "absent" /\ At(sub, TargetOf(n), n) = "moved"
  /\ \E n \in Names :
       /\ Movable(before, n) /\ At(before.sub, TargetOf(n), n) = "none"
       /\ <<"error", n>> \in out

MovedTo(n) == {t[1] : t \in {u \in sub : u[2] = n /\ u[3] = "moved"}}

C4_BatchContinues ==
  (pc \in {"done", "failed"} /\ ~ProvisioningFailed) =>
    \A e \in Entries : (Present(root, e) \/ e \in renamed) => e \in seen

(***************************************************************************)
(* C5. Folder provisioning failure is fatal: when ensure_folders throws,   *)
(* it has stopped at the folder it could not provide, nothing was          *)
(* enumerated or moved, the exit code is 1 and no completion notice was    *)
(* printed; and the enumeration begins only when no folder failed.         *)
(***************************************************************************)
C5_ProvisioningFailureIsFatal ==
  /\ ProvisioningFailed =>
       /\ status(root[Head(pending)]) \notin {"regular", "directory"}
       /\ \A c \in Range(Tail(pending)) : root[c] = before.root[c]
       /\ \A n \in Names : root[n] = before.root[n]
       /\ sub = before.sub
       /\ seen = {} /\ renamed = {} /\ todo = <<>>
       /\ exitCode = 1
       /\ <<"complete">> \notin out
  /\ (pc \in {"scan", "done"} \/ seen # {}) =>
       \A c \in Folders : status(root[c]) \in {"regular", "directory"}

C5_Witness ==
  /\ ProvisioningFailed
  /\ \E c \in Folders : root[c] = "dir" /\ before.root[c] = "absent"
  /\ \E n \in Names : Movable(before, n) /\ root[n] = "file"

(***************************************************************************)
(* C6. Postcondition of ensure_folders: when it has returned without       *)
(* error, every category name is a directory of base_path.                 *)
(***************************************************************************)
C6_EveryFolderIsDirectory ==
  (pc \in {"scan", "done"}) => \A c \in Folders : root[c] = "dir"

(***************************************************************************)
(* C7. Self-exclusion: an executable that lies in base_path is never       *)
(* moved, and the self-path check skips no file but the executable.        *)
(***************************************************************************)
C7_SelfExclusion ==
  /\ env.argv0.dir = "root" => root[ExeName] = "file"
  /\ \A n \in seen :
       (before.root[n] = "file" /\ entry_path(n) = self_path) =>
         (env.argv0.dir = "root" /\ n = ExeName)

(***************************************************************************)
(* C8. Idempotence: a second run renames nothing and leaves the tree as    *)
(* the first run left it; files the first run moved are not visited again. *)
(***************************************************************************)
C8_SecondRunChangesNothing ==
  run >= 2 =>
    /\ root = before.root
    /\ sub = before.sub
    /\ renamed = {}
    /\ \A n \in Names : MovedTo(n) # {} => n \notin seen

C8_Witness ==
  /\ run = 2 /\ Returned
  /\ \E n \in Names : MovedTo(n) # {}
  /\ \E n \in Names : <<"skipping", n, TargetOf(n)>> \in out /\ root[n] = "file"

(***************************************************************************)
(* C9. get_target_folder is a total, case-insensitive lookup: the result   *)
(* is the one folder of FOLDER_MAP that lists the lower-cased extension,   *)
(* "Others" when none does; and the index holds exactly the extensions of  *)
(* the table, each under the folder that lists it.                         *)
(***************************************************************************)
C9_CaseInsensitiveLookup ==
  /\ pc = "classified" =>
       /\ folder \in Folders
       /\ \A c \in Folders : InTable(LowerCase(ext), c) => folder = c
       /\ (\A c \in Folders : ~InTable(LowerCase(ext), c)) => folder = "Others"
  /\ DOMAIN g_extension_to_folder_map = TableExtensions
  /\ \A e \in TableExtensions :
       \A c \in Folders : InTable(e, c) <=> g_extension_to_folder_map[e] = c

C9_Witness ==
  /\ pc = "classified"
  /\ ext # LowerCase(ext)
  /\ ext \notin TableExtensions
  /\ folder = "Music"

====
